---- MODULE Spec2Model ----
(***************************************************************************)
(* Model of src/storage/s3.rs: the S3 storage backend of docs.rs.          *)
(*                                                                         *)
(* One client thread drives one S3Backend: it opens a storage transaction, *)
(* calls store_batch (the retried, concurrent write path), complete, and   *)
(* get (the size-bounded read path).  The remote bucket is the environment:*)
(* every put request succeeds or fails, every fetch may fail in transport. *)
(***************************************************************************)
EXTENDS Integers, Sequences, FiniteSets, TLC

(* ---------------------------------------------------------------------- *)
(* Bounds of the model                                                     *)
(* ---------------------------------------------------------------------- *)
\* longest batch handed to store_batch
MaxBatch == 2
\* number of store_batch calls made on the transaction
MaxCalls == 2
\* largest max_size handed to get
MaxMaxSize == 2
\* longest text, in pieces, handed to parse_timespec
MaxPieces == 3

(* ---------------------------------------------------------------------- *)
(* Values                                                                  *)
(* ---------------------------------------------------------------------- *)
\* Option<T>: None is the empty sequence, Some(x) the one-element sequence
None == <<>>
Some(x) == <<x>>
IsSome(o) == Len(o) = 1
Unwrap(o) == o[1]

\* mutant of MaxAttempts: the loop written `for _ in 0..=3`
MaxAttemptsInclusive == 3 + 1

\* `for _ in 0..3`: the number of rounds of one store_batch call
MaxAttempts == 3

\* paths and object keys are texts, kept as their '/'-separated segments
DirFoo == <<"dir", "foo.txt">>
DirBar == <<"dir", "bar.txt">>
Foo == <<"foo.txt">>
Dir == <<"dir">>

\* object keys of the bucket
Keys == {DirFoo, DirBar, Foo, Dir}

\* super::CompressionAlgorithm and its content-encoding labels
CompressionAlgorithms == {"Zstd"}
to_string(alg) == CASE alg = "Zstd" -> "zstd"
\* str::parse::<CompressionAlgorithm>(): Ok(alg) as Some(alg), Err as None
parse_compression(s) == IF s = "zstd" THEN Some("Zstd") ELSE None

\* Last-Modified header values, as sequences of text pieces
EpochRaw == <<"Thu, 1 Jan 1970 00:00:00", " GMT">>
AprilRaw == <<"Mon, 16 Apr 2018 04:33:50", " GMT">>
\* NaiveDateTime::parse_from_str(raw, "%a, %d %b %Y %H:%M:%S"): seconds since
\* the epoch as Some(t), a parse error as None
NaiveParse(pieces) ==
    IF pieces = <<"Thu, 1 Jan 1970 00:00:00">> THEN Some(0)
    ELSE IF pieces = <<"Mon, 16 Apr 2018 04:33:50">> THEN Some(1523853230)
    ELSE None

\* str::trim_end_matches(" GMT"): removes every trailing repetition
RECURSIVE trim_end_matches_GMT(_)
trim_end_matches_GMT(raw) ==
    IF Len(raw) > 0 /\ raw[Len(raw)] = " GMT"
    THEN trim_end_matches_GMT(SubSeq(raw, 1, Len(raw) - 1))
    ELSE raw

\* parse_timespec: Some(instant) for Ok, None for Err
parse_timespec(text) == NaiveParse(trim_end_matches_GMT(text))

\* the pieces of the texts given to parse_timespec
TimestampPieces ==
    {"Thu, 1 Jan 1970 00:00:00", "Mon, 16 Apr 2018 04:33:50", " GMT", "foo"}

\* the texts of at most MaxPieces pieces
TimestampTexts == UNION {[1..n -> TimestampPieces] : n \in 0..MaxPieces}

\* the blobs a caller submits (super::Blob)
Blob(p, m, d, c, z) ==
    [path |-> p, mime |-> m, date_updated |-> d, content |-> c, compression |-> z]

BlobUniverse ==
    { Blob(DirFoo, "text/plain", 7, <<1>>, None),
      Blob(DirFoo, "text/html", 7, <<2, 3>>, Some("Zstd")),
      Blob(DirBar, "text/plain", 7, <<4, 5, 6>>, None) }

\* the time the remote store stamps on an object it writes
ServerLastModified == AprilRaw

\* mutant of PutObjectRequest: the key is the file name, without its directory
PutObjectRequestFileName(blob) ==
    [ key |-> <<blob.path[Len(blob.path)]>>,
      body |-> Some(blob.content),
      content_type |-> Some(blob.mime),
      content_encoding |->
          IF IsSome(blob.compression) THEN Some(to_string(Unwrap(blob.compression)))
          ELSE None ]

\* mutant of PutObjectRequest: the key is the directory of the path
PutObjectRequestDirKey(blob) ==
    [ key |-> <<blob.path[1]>>,
      body |-> Some(blob.content),
      content_type |-> Some(blob.mime),
      content_encoding |->
          IF IsSome(blob.compression) THEN Some(to_string(Unwrap(blob.compression)))
          ELSE None ]

\* mutant of PutObjectRequest: the content encoding is left at its default
PutObjectRequestNoEncoding(blob) ==
    [ key |-> blob.path,
      body |-> Some(blob.content),
      content_type |-> Some(blob.mime),
      content_encoding |-> None ]

\* PutObjectRequest built by store_batch for one blob
PutObjectRequest(blob) ==
    [ key |-> blob.path,
      body |-> Some(blob.content),
      content_type |-> Some(blob.mime),
      content_encoding |->
          IF IsSome(blob.compression) THEN Some(to_string(Unwrap(blob.compression)))
          ELSE None ]

\* the object the remote store holds after serving a put request
StoredObject(req) ==
    [ body |-> Unwrap(req.body),
      content_type |-> req.content_type,
      content_encoding |-> req.content_encoding,
      last_modified |-> Some(ServerLastModified) ]

\* objects found in the bucket that this client did not write
ForeignObjects ==
    { [body |-> <<8, 9>>, content_type |-> None, content_encoding |-> None,
       last_modified |-> Some(EpochRaw)],
      [body |-> <<8, 9>>, content_type |-> Some("text/css"), content_encoding |-> None,
       last_modified |-> None],
      [body |-> <<>>, content_type |-> Some("text/css"), content_encoding |-> Some("br"),
       last_modified |-> Some(EpochRaw)],
      [body |-> <<8>>, content_type |-> Some("text/css"), content_encoding |-> None,
       last_modified |-> Some(<<"foo">>)],
      [body |-> <<8>>, content_type |-> Some("text/css"), content_encoding |-> Some("br"),
       last_modified |-> Some(EpochRaw)] }

\* a key holds Some(object) or None
EmptyBucket == [k \in Keys |-> None]
InitialBuckets ==
    {EmptyBucket} \cup {[EmptyBucket EXCEPT ![DirBar] = Some(o)] : o \in ForeignObjects}

\* GetObjectRequest built by get for a path
GetObjectRequest(path) == [key |-> path]

\* GetObjectOutput.content_length values a response may declare (Option<i64>)
ContentLengths == {None, Some(-1), Some(1), Some(3)}

\* the response to a fetch of a stored object
GetObjectOutput(obj, len, hasBody) ==
    [ body |-> IF hasBody THEN Some(obj.body) ELSE None,
      content_length |-> len,
      content_type |-> obj.content_type,
      content_encoding |-> obj.content_encoding,
      last_modified |-> obj.last_modified ]

NoResponse == GetObjectOutput([body |-> <<>>, content_type |-> None,
                               content_encoding |-> None, last_modified |-> None],
                              None, FALSE)

\* crate::utils::sized_buffer::SizedBuffer
SizedBuffer_new(limit) == [inner |-> <<>>, limit |-> limit, reserved |-> 0]

\* SizedBuffer::reserve: a capacity request clamped to the limit
SizedBuffer_reserve(buf, amount) ==
    [buf EXCEPT !.reserved =
        IF Len(buf.inner) + amount > buf.limit THEN buf.limit - Len(buf.inner)
        ELSE amount]

\* <SizedBuffer as Write>::write: Some(buffer after the write), None for the
\* SizeLimitReached error
SizedBuffer_write(buf, data) ==
    IF Len(buf.inner) + Len(data) > buf.limit THEN None
    ELSE Some([buf EXCEPT !.inner = buf.inner \o data])

\* Write::write_all over SizedBuffer::write: an empty chunk writes nothing
SizedBuffer_write_all(buf, data) ==
    IF data = <<>> THEN Some(buf) ELSE SizedBuffer_write(buf, data)

SizedBuffer_into_inner(buf) == buf.inner

\* the i64 content length as a usize reservation: try_into().ok(), else 0
ReserveAmount(len) ==
    IF IsSome(len) /\ Unwrap(len) >= 0 THEN Unwrap(len) ELSE 0

\* Result<Blob, Error> of get, and the panic that ends the process
OkBlob(b) == [kind |-> "Blob", blob |-> Some(b)]
Failure(k) == [kind |-> k, blob |-> None]
NoResult == Failure("None")

\* all batches of at most MaxBatch blobs
Batches == UNION {[1..n -> BlobUniverse] : n \in 0..MaxBatch}

(* ---------------------------------------------------------------------- *)
(* State                                                                   *)
(* ---------------------------------------------------------------------- *)
VARIABLES
    objects,    \* the bucket: key -> Option<object>
    uploaded,   \* crate::web::metrics::UPLOADED_FILES_TOTAL
    txn,        \* the S3StorageTransaction: "Open", "Complete", "Aborted"
    pc,         \* where the client is: "idle", "loop", "await", "stream",
                \* "returned" (a call has returned its Result), "panicked"
    calls,      \* store_batch calls started
    submitted,  \* the batch given to the current (or last) store_batch call
    batch,      \* `batch`: the blobs still to upload, as <<id, blob>> entries
    futures,    \* `futures`: the put requests in flight
    round,      \* iterations of `for _ in 0..3` started by the call
    hist,       \* per submitted blob, the outcome of each put request
    result,     \* the Result of the last store_batch or complete call: "None",
                \* "Ok", or "Panic" for the panic of store_batch
    stored,     \* per key, the blobs whose put request has succeeded
    uploaded0,  \* the upload counter when the current store_batch call began
    gpath,      \* get: `path`
    gmax,       \* get: `max_size`
    res,        \* get: `res`, the response of get_object
    content,    \* get: `content`, the SizedBuffer
    gpos,       \* get: bytes of the body the stream has yielded
    gresult,    \* get: what the last get call did
    raw,        \* parse_timespec: `raw`, the text given to it
    parsed      \* parse_timespec: its Result

wvars == <<objects, uploaded, txn, calls, submitted, batch, futures, round, hist, result,
          stored, uploaded0>>
gvars == <<gpath, gmax, res, content, gpos, gresult>>
tvars == <<raw, parsed>>
vars == <<wvars, pc, gvars, tvars>>

Entry(i, b) == [id |-> i, blob |-> b]

\* no get call is running and no result of one is held
GetIdle ==
    /\ gpath = <<>>
    /\ gmax = 0
    /\ res = NoResponse
    /\ content = SizedBuffer_new(0)
    /\ gpos = 0
    /\ gresult = NoResult

\* the locals of a finished get call and its result are dropped
GetDropped ==
    /\ gpath' = <<>>
    /\ gmax' = 0
    /\ res' = NoResponse
    /\ content' = SizedBuffer_new(0)
    /\ gpos' = 0
    /\ gresult' = NoResult

\* Result<DateTime<Utc>, Error> of parse_timespec
OkInstant(t) == [kind |-> "Ok", instant |-> Some(t)]
MalformedTimestamp == [kind |-> "MalformedTimestamp", instant |-> None]
NotParsed == [kind |-> "None", instant |-> None]

Init ==
    /\ raw = <<>>
    /\ parsed = NotParsed
    /\ objects \in InitialBuckets
    /\ uploaded = 0
    /\ txn = "Open"
    /\ pc = "idle"
    /\ calls = 0
    /\ submitted = <<>>
    /\ batch = <<>>
    /\ futures = {}
    /\ round = 0
    /\ hist = <<>>
    /\ result = "None"
    /\ stored = [k \in Keys |-> {}]
    /\ uploaded0 = 0
    /\ GetIdle

(* ---------------------------------------------------------------------- *)
(* store_batch                                                             *)
(* ---------------------------------------------------------------------- *)
\* the caller hands a batch to store_batch
StoreBatch ==
    /\ pc = "idle"
    /\ txn = "Open"
    /\ calls < MaxCalls
    /\ \E b \in Batches :
        /\ submitted' = b
        /\ batch' = [i \in 1..Len(b) |-> Entry(i, b[i])]
        /\ hist' = [i \in 1..Len(b) |-> <<>>]
    /\ calls' = calls + 1
    /\ uploaded0' = uploaded
    /\ pc' = "loop"
    /\ UNCHANGED <<objects, uploaded, txn, futures, round, result, stored, gvars>>
    /\ UNCHANGED tvars

\* mutant of RoundStart: every round re-sends the whole submitted batch
RoundStartResendsAll ==
    /\ pc = "loop"
    /\ round < MaxAttempts
    /\ round' = round + 1
    /\ futures' = {Entry(i, submitted[i]) : i \in 1..Len(submitted)}
    /\ hist' = [i \in DOMAIN hist |->
                  Append(hist[i], [round |-> round + 1, res |-> "inflight"])]
    /\ batch' = <<>>
    /\ pc' = "await"
    /\ UNCHANGED <<objects, uploaded, txn, calls, submitted, result, stored, uploaded0, gvars>>
    /\ UNCHANGED tvars

\* mutant of RoundStart: the rounds are not counted (`loop` in place of `for`)
RoundStartUncounted ==
    /\ pc = "loop"
    /\ round < MaxAttempts
    /\ round' = round
    /\ futures' = {batch[i] : i \in 1..Len(batch)}
    /\ hist' = [i \in DOMAIN hist |->
                  IF \E k \in 1..Len(batch) : batch[k].id = i
                  THEN <<[round |-> round, res |-> "inflight"]>>
                  ELSE hist[i]]
    /\ batch' = <<>>
    /\ pc' = "await"
    /\ UNCHANGED <<objects, uploaded, txn, calls, submitted, result, stored, uploaded0, gvars>>
    /\ UNCHANGED tvars

\* one iteration of the for loop begins: batch.drain(..) turns every
\* remaining blob into a put request and leaves the batch empty
RoundStart ==
    /\ pc = "loop"
    /\ round < MaxAttempts
    /\ round' = round + 1
    /\ futures' = {batch[i] : i \in 1..Len(batch)}
    /\ hist' = [i \in DOMAIN hist |->
                  IF \E k \in 1..Len(batch) : batch[k].id = i
                  THEN Append(hist[i], [round |-> round + 1, res |-> "inflight"])
                  ELSE hist[i]]
    /\ batch' = <<>>
    /\ pc' = "await"
    /\ UNCHANGED <<objects, uploaded, txn, calls, submitted, result, stored, uploaded0, gvars>>
    /\ UNCHANGED tvars

SetLast(h, r) == [h EXCEPT ![Len(h)].res = r]

\* a put request completes with Ok: map_ok counts the upload
PutOk ==
    /\ pc = "await"
    /\ \E f \in futures :
        LET req == PutObjectRequest(f.blob) IN
        /\ objects' = [objects EXCEPT ![req.key] = Some(StoredObject(req))]
        /\ futures' = futures \ {f}
        /\ hist' = [hist EXCEPT ![f.id] = SetLast(@, "ok")]
        /\ stored' = [stored EXCEPT ![req.key] = @ \cup {f.blob}]
    /\ uploaded' = uploaded + 1
    /\ UNCHANGED <<txn, pc, calls, submitted, batch, round, result, uploaded0, gvars>>
    /\ UNCHANGED tvars

\* mutant of PutErr: the body was moved into the request, not cloned, so the
\* blob given back for the retry has lost its content
PutErrLosesContent ==
    /\ pc = "await"
    /\ \E f \in futures :
        /\ batch' = Append(batch, Entry(f.id, [f.blob EXCEPT !.content = <<>>]))
        /\ futures' = futures \ {f}
        /\ hist' = [hist EXCEPT ![f.id] = SetLast(@, "err")]
    /\ UNCHANGED <<objects, uploaded, txn, pc, calls, submitted, round, result, stored, uploaded0, gvars>>
    /\ UNCHANGED tvars

\* mutant of PutErr: the failed upload is counted too
PutErrCountsUpload ==
    /\ pc = "await"
    /\ \E f \in futures :
        /\ batch' = Append(batch, f)
        /\ futures' = futures \ {f}
        /\ hist' = [hist EXCEPT ![f.id] = SetLast(@, "err")]
    /\ uploaded' = uploaded + 1
    /\ UNCHANGED <<objects, txn, pc, calls, submitted, round, result, stored, uploaded0, gvars>>
    /\ UNCHANGED tvars

\* a put request completes with Err: map_err gives the blob back and the
\* collecting loop pushes it into the batch
PutErr ==
    /\ pc = "await"
    /\ \E f \in futures :
        /\ batch' = Append(batch, f)
        /\ futures' = futures \ {f}
        /\ hist' = [hist EXCEPT ![f.id] = SetLast(@, "err")]
    /\ UNCHANGED <<objects, uploaded, txn, pc, calls, submitted, round, result, stored, uploaded0, gvars>>
    /\ UNCHANGED tvars

\* mutant of RoundEnd: the emptiness test is made without waiting for the
\* requests still in flight
RoundEndEarly ==
    /\ pc = "await"
    /\ IF batch = <<>>
       THEN /\ result' = "Ok"
            /\ pc' = "returned"
       ELSE /\ result' = result
            /\ pc' = "loop"
    /\ UNCHANGED <<objects, uploaded, txn, calls, submitted, batch, futures, round, hist, stored, uploaded0, gvars>>
    /\ UNCHANGED tvars

\* mutant of RoundEnd: the early `return Ok(())` is missing
RoundEndNoReturn ==
    /\ pc = "await"
    /\ futures = {}
    /\ result' = result
    /\ pc' = "loop"
    /\ UNCHANGED <<objects, uploaded, txn, calls, submitted, batch, futures, round, hist, stored, uploaded0, gvars>>
    /\ UNCHANGED tvars

\* futures.next() yields None: the wave is over
RoundEnd ==
    /\ pc = "await"
    /\ futures = {}
    /\ IF batch = <<>>
       THEN /\ result' = "Ok"
            /\ pc' = "returned"
       ELSE /\ result' = result
            /\ pc' = "loop"
    /\ UNCHANGED <<objects, uploaded, txn, calls, submitted, batch, futures, round, hist, stored, uploaded0, gvars>>
    /\ UNCHANGED tvars

\* mutant of Exhausted: the leftover batch is reported as a returned error
ExhaustedReturnsErr ==
    /\ pc = "loop"
    /\ round >= MaxAttempts
    /\ result' = "Err"
    /\ pc' = "returned"
    /\ UNCHANGED <<objects, uploaded, txn, calls, submitted, batch, futures, round, hist, stored, uploaded0, gvars>>
    /\ UNCHANGED tvars

\* mutant of Exhausted: the objects uploaded by the failing call are removed
ExhaustedRollsBack ==
    /\ pc = "loop"
    /\ round >= MaxAttempts
    /\ result' = "Panic"
    /\ pc' = "panicked"
    /\ txn' = "Aborted"
    /\ objects' = [k \in Keys |->
                     IF \E i \in 1..Len(submitted) : submitted[i].path = k
                     THEN None ELSE objects[k]]
    /\ UNCHANGED <<uploaded, calls, submitted, batch, futures, round, hist, stored, uploaded0, gvars>>
    /\ UNCHANGED tvars

\* the for loop ran out: panic!("failed to upload 3 times, exiting")
Exhausted ==
    /\ pc = "loop"
    /\ round >= MaxAttempts
    /\ result' = "Panic"
    /\ pc' = "panicked"
    /\ txn' = "Aborted"
    /\ UNCHANGED <<objects, uploaded, calls, submitted, batch, futures, round, hist, stored, uploaded0, gvars>>
    /\ UNCHANGED tvars

\* mutant of Complete: completing counts as one more upload
CompleteCountsUpload ==
    /\ pc = "idle"
    /\ txn = "Open"
    /\ txn' = "Complete"
    /\ result' = "Ok"
    /\ pc' = "returned"
    /\ uploaded' = uploaded + 1
    /\ uploaded0' = uploaded + 1
    /\ UNCHANGED <<objects, calls, submitted, batch, futures, round, hist, stored, gvars>>
    /\ UNCHANGED tvars

\* complete(self: Box<Self>) consumes the transaction and returns Ok(())
Complete ==
    /\ pc = "idle"
    /\ txn = "Open"
    /\ txn' = "Complete"
    /\ result' = "Ok"
    /\ pc' = "returned"
    /\ UNCHANGED <<objects, uploaded, calls, submitted, batch, futures, round, hist, stored, uploaded0, gvars>>
    /\ UNCHANGED tvars

\* mutant of Return: the round counter lives in the transaction and is kept
\* from one store_batch call to the next
ReturnKeepsRound ==
    /\ pc = "returned"
    /\ pc' = "idle"
    /\ submitted' = <<>>
    /\ batch' = <<>>
    /\ futures' = {}
    /\ round' = round
    /\ hist' = <<>>
    /\ result' = "None"
    /\ uploaded0' = uploaded
    /\ GetDropped
    /\ UNCHANGED <<objects, uploaded, txn, calls, stored>>
    /\ UNCHANGED tvars

\* the caller takes the Result of store_batch or get; the call's locals are
\* gone, and the transaction (a reference to the backend) keeps nothing of them
Return ==
    /\ pc = "returned"
    /\ pc' = "idle"
    /\ submitted' = <<>>
    /\ batch' = <<>>
    /\ futures' = {}
    /\ round' = 0
    /\ hist' = <<>>
    /\ result' = "None"
    /\ uploaded0' = uploaded
    /\ GetDropped
    /\ UNCHANGED <<objects, uploaded, txn, calls, stored>>
    /\ UNCHANGED tvars

(* ---------------------------------------------------------------------- *)
(* get                                                                     *)
(* ---------------------------------------------------------------------- *)
\* get_object reports that the key does not exist
GetNotFound ==
    /\ pc = "idle"
    /\ \E p \in Keys, m \in 0..MaxMaxSize :
        /\ objects[GetObjectRequest(p).key] = None
        /\ gpath' = p
        /\ gmax' = m
    /\ res' = NoResponse
    /\ content' = SizedBuffer_new(0)
    /\ gpos' = 0
    /\ gresult' = Failure("NotFound")
    /\ pc' = "returned"
    /\ UNCHANGED wvars
    /\ UNCHANGED tvars

\* get_object fails in transport
GetRequestFails ==
    /\ pc = "idle"
    /\ \E p \in Keys, m \in 0..MaxMaxSize :
        /\ gpath' = p
        /\ gmax' = m
    /\ res' = NoResponse
    /\ content' = SizedBuffer_new(0)
    /\ gpos' = 0
    /\ gresult' = Failure("TransportError")
    /\ pc' = "returned"
    /\ UNCHANGED wvars
    /\ UNCHANGED tvars

\* mutant of GetResponse: a declared content length above max_size is refused
GetResponseTrustsLength ==
    /\ pc = "idle"
    /\ \E p \in Keys, m \in 0..MaxMaxSize, len \in ContentLengths, hasBody \in BOOLEAN :
        /\ objects[GetObjectRequest(p).key] # None
        /\ gpath' = p
        /\ gmax' = m
        /\ res' = GetObjectOutput(Unwrap(objects[GetObjectRequest(p).key]), len, hasBody)
        /\ content' = SizedBuffer_reserve(SizedBuffer_new(m), ReserveAmount(len))
        /\ gpos' = 0
        /\ IF ReserveAmount(len) > m
           THEN /\ gresult' = Failure("SizeLimitExceeded")
                /\ pc' = "returned"
           ELSE IF hasBody
           THEN /\ gresult' = NoResult
                /\ pc' = "stream"
           ELSE /\ gresult' = Failure("TransportError")
                /\ pc' = "returned"
    /\ UNCHANGED wvars
    /\ UNCHANGED tvars

\* mutant of GetResponse: the buffer is created one byte too large
GetResponseLooseLimit ==
    /\ pc = "idle"
    /\ \E p \in Keys, m \in 0..MaxMaxSize, len \in ContentLengths, hasBody \in BOOLEAN :
        /\ objects[GetObjectRequest(p).key] # None
        /\ gpath' = p
        /\ gmax' = m
        /\ res' = GetObjectOutput(Unwrap(objects[GetObjectRequest(p).key]), len, hasBody)
        /\ content' = SizedBuffer_reserve(SizedBuffer_new(m + 1), ReserveAmount(len))
        /\ gpos' = 0
        /\ IF hasBody
           THEN /\ gresult' = NoResult
                /\ pc' = "stream"
           ELSE /\ gresult' = Failure("TransportError")
                /\ pc' = "returned"
    /\ UNCHANGED wvars
    /\ UNCHANGED tvars

\* get_object answers: the buffer is created and reserved, the body taken
GetResponse ==
    /\ pc = "idle"
    /\ \E p \in Keys, m \in 0..MaxMaxSize, len \in ContentLengths, hasBody \in BOOLEAN :
        /\ objects[GetObjectRequest(p).key] # None
        /\ gpath' = p
        /\ gmax' = m
        /\ res' = GetObjectOutput(Unwrap(objects[GetObjectRequest(p).key]), len, hasBody)
        /\ content' = SizedBuffer_reserve(SizedBuffer_new(m), ReserveAmount(len))
        /\ gpos' = 0
        /\ IF hasBody
           THEN /\ gresult' = NoResult
                /\ pc' = "stream"
           ELSE /\ gresult' = Failure("TransportError")
                /\ pc' = "returned"
    /\ UNCHANGED wvars
    /\ UNCHANGED tvars

\* mutant of GetChunk: the result of write_all is dropped, not propagated
GetChunkIgnoresError ==
    /\ pc = "stream"
    /\ \E n \in 0..(Len(Unwrap(res.body)) - gpos) :
        LET data == SubSeq(Unwrap(res.body), gpos + 1, gpos + n)
            written == SizedBuffer_write_all(content, data)
        IN  /\ n > 0 \/ gpos < Len(Unwrap(res.body))
            /\ gpos' = gpos + n
            /\ content' = IF IsSome(written) THEN Unwrap(written) ELSE content
    /\ UNCHANGED <<wvars, pc, gpath, gmax, res, gresult>>
    /\ UNCHANGED tvars

\* body.next() yields a chunk, which write_all appends or refuses
GetChunk ==
    /\ pc = "stream"
    /\ \E n \in 0..(Len(Unwrap(res.body)) - gpos) :
        LET data == SubSeq(Unwrap(res.body), gpos + 1, gpos + n)
            written == SizedBuffer_write_all(content, data)
        IN  /\ n > 0 \/ gpos < Len(Unwrap(res.body))
            /\ gpos' = gpos + n
            /\ IF IsSome(written)
               THEN /\ content' = Unwrap(written)
                    /\ gresult' = gresult
                    /\ pc' = pc
               ELSE /\ content' = content
                    /\ gresult' = Failure("SizeLimitExceeded")
                    /\ pc' = "returned"
    /\ UNCHANGED <<wvars, gpath, gmax, res>>
    /\ UNCHANGED tvars

\* body.next() yields a transport error
GetStreamError ==
    /\ pc = "stream"
    /\ gresult' = Failure("TransportError")
    /\ pc' = "returned"
    /\ UNCHANGED <<wvars, gpath, gmax, res, content, gpos>>
    /\ UNCHANGED tvars

\* mutant of GetFinish: a content encoding that does not parse fails the read
GetFinishStrictEncoding ==
    /\ pc = "stream"
    /\ gpos = Len(Unwrap(res.body))
    /\ IF res.last_modified = None
       THEN /\ gresult' = Failure("Panic")
            /\ pc' = "panicked"
       ELSE IF parse_timespec(Unwrap(res.last_modified)) = None
       THEN /\ gresult' = Failure("MalformedTimestamp")
            /\ pc' = "returned"
       ELSE IF IsSome(res.content_encoding)
               /\ parse_compression(Unwrap(res.content_encoding)) = None
       THEN /\ gresult' = Failure("UnknownEncoding")
            /\ pc' = "returned"
       ELSE IF res.content_type = None
       THEN /\ gresult' = Failure("Panic")
            /\ pc' = "panicked"
       ELSE /\ gresult' = OkBlob(Blob(gpath,
                                      Unwrap(res.content_type),
                                      Unwrap(parse_timespec(Unwrap(res.last_modified))),
                                      SizedBuffer_into_inner(content),
                                      IF IsSome(res.content_encoding)
                                      THEN parse_compression(Unwrap(res.content_encoding))
                                      ELSE None))
            /\ pc' = "returned"
    /\ UNCHANGED <<wvars, gpath, gmax, res, content, gpos>>
    /\ UNCHANGED tvars

\* body.next() yields None: the Blob is assembled from the response
GetFinish ==
    /\ pc = "stream"
    /\ gpos = Len(Unwrap(res.body))
    /\ IF res.last_modified = None
       THEN /\ gresult' = Failure("Panic")
            /\ pc' = "panicked"
       ELSE IF parse_timespec(Unwrap(res.last_modified)) = None
       THEN /\ gresult' = Failure("MalformedTimestamp")
            /\ pc' = "returned"
       ELSE IF res.content_type = None
       THEN /\ gresult' = Failure("Panic")
            /\ pc' = "panicked"
       ELSE /\ gresult' = OkBlob(Blob(gpath,
                                      Unwrap(res.content_type),
                                      Unwrap(parse_timespec(Unwrap(res.last_modified))),
                                      SizedBuffer_into_inner(content),
                                      IF IsSome(res.content_encoding)
                                      THEN parse_compression(Unwrap(res.content_encoding))
                                      ELSE None))
            /\ pc' = "returned"
    /\ UNCHANGED <<wvars, gpath, gmax, res, content, gpos>>
    /\ UNCHANGED tvars

Next ==
    \/ StoreBatch
    \/ RoundStart
    \/ PutOk
    \/ PutErr
    \/ RoundEnd
    \/ Exhausted
    \/ Complete
    \/ Return
    \/ GetNotFound
    \/ GetRequestFails
    \/ GetResponse
    \/ GetChunk
    \/ GetStreamError
    \/ GetFinish

Spec == Init /\ [][Next]_vars

\* store_batch never reads the bucket: its control flow depends on the
\* outcomes of its put requests alone, so one initial bucket stands for all
InitEmptyBucket ==
    /\ Init
    /\ objects = EmptyBucket

\* the runtime keeps running the task of store_batch, and every put request
\* that was issued completes, with Ok or with Err
FairSpec ==
    /\ InitEmptyBucket
    /\ [][Next]_vars
    /\ WF_vars(RoundStart)
    /\ WF_vars(PutOk \/ PutErr)
    /\ WF_vars(RoundEnd)
    /\ WF_vars(Exhausted)

(* ---------------------------------------------------------------------- *)
(* parse_timespec on its own                                               *)
(* ---------------------------------------------------------------------- *)
\* a text is handed to parse_timespec
InitParse ==
    /\ raw \in TimestampTexts
    /\ parsed = NotParsed
    /\ objects = EmptyBucket
    /\ uploaded = 0
    /\ txn = "Open"
    /\ pc = "idle"
    /\ calls = 0
    /\ submitted = <<>>
    /\ batch = <<>>
    /\ futures = {}
    /\ round = 0
    /\ hist = <<>>
    /\ result = "None"
    /\ stored = [k \in Keys |-> {}]
    /\ uploaded0 = 0
    /\ GetIdle

\* parse_timespec runs on the text
ParseTimespec ==
    /\ parsed = NotParsed
    /\ parsed' = IF parse_timespec(raw) = None THEN MalformedTimestamp
                 ELSE OkInstant(Unwrap(parse_timespec(raw)))
    /\ UNCHANGED <<wvars, pc, gvars, raw>>

NextParse == ParseTimespec

SpecParse == InitParse /\ [][NextParse]_vars

TypeOK ==
    /\ uploaded \in Nat
    /\ txn \in {"Open", "Complete", "Aborted"}
    /\ round \in 0..MaxAttempts
(* ---------------------------------------------------------------------- *)
(* Properties of store_batch                                               *)
(* ---------------------------------------------------------------------- *)
Ids == DOMAIN hist

\* the outcomes of the put requests of submitted blob i, round by round
Outcomes(i) == [k \in 1..Len(hist[i]) |-> hist[i][k].res]

\* number of put requests of blob i that succeeded
Successes(i) == Cardinality({k \in 1..Len(hist[i]) : hist[i][k].res = "ok"})

RECURSIVE SumPuts(_)
SumPuts(n) == IF n = 0 THEN 0 ELSE Len(hist[n]) + SumPuts(n - 1)

\* put requests issued by the current call
TotalPuts == SumPuts(Len(hist))

\* every blob of a non-empty batch failed in round 1 and succeeded in round 2
FailedOnceThenOk ==
    /\ submitted # <<>>
    /\ \A i \in Ids :
        /\ Len(hist[i]) >= 2
        /\ hist[i][1].res = "err"
        /\ hist[i][2].res = "ok"

\* C1: when every blob of a non-empty batch fails in round 1 and succeeds in
\* round 2, the call uses exactly 2 rounds, every blob gets exactly 2 put
\* requests, the upload counter grows by one per blob and the call returns Ok.
C1_RetryConvergence ==
    FailedOnceThenOk =>
        /\ round = 2
        /\ \A i \in Ids : Len(hist[i]) = 2 /\ Successes(i) = 1
        /\ uploaded - uploaded0 = Len(submitted)
        /\ batch = <<>> /\ futures = {}
        /\ pc \in {"await", "returned"}
        /\ pc = "returned" => result = "Ok"

C1_Witness ==
    /\ FailedOnceThenOk
    /\ Len(submitted) = 2
    /\ pc = "returned"
    /\ result = "Ok"

\* some blob failed in all three rounds
ExhaustedBlob == \E i \in Ids : Outcomes(i) = <<"err", "err", "err">>

\* C2: when a blob has failed in all 3 rounds the call returns neither Ok nor
\* an Err value: it ends in the panic and the transaction is never Complete;
\* the panic of store_batch happens only then; and Ok is returned only with
\* an empty retained batch and no request in flight.
C2_RetryExhaustion ==
    /\ ExhaustedBlob =>
        /\ result \in {"None", "Panic"}
        /\ pc \in {"await", "loop", "panicked"}
        /\ txn # "Complete"
    /\ result = "Panic" => ExhaustedBlob /\ pc = "panicked" /\ txn = "Aborted" /\ batch # <<>>
    /\ result = "Ok" => batch = <<>> /\ futures = {}
    /\ result \in {"None", "Ok", "Panic"}

C2_Witness ==
    /\ pc = "panicked"
    /\ result = "Panic"
    /\ \E i, j \in Ids : Outcomes(i) = <<"err", "err", "err">> /\ Successes(j) = 1

\* the object a successful put of blob b leaves in the bucket
ObjectOf(b) == Some(StoredObject(PutObjectRequest(b)))

\* C3 (as stated): once a put of a blob has succeeded, its key holds that
\* blob's content in every later state.
C3_KeepsContentForever ==
    \A k \in Keys : \A b \in stored[k] :
        objects[k] # None /\ Unwrap(objects[k]).body = b.content

\* C3 (amended): no step removes an object; a key's object changes only by a
\* put request for that key that succeeds in that step, and then it holds that
\* blob's content; a key with a successful put always holds the object of one
\* of the blobs put to it. This holds across failed rounds, the panic and
\* complete().
C3_NoRollback ==
    /\ [](\A k \in Keys : stored[k] # {} => \E b \in stored[k] : objects[k] = ObjectOf(b))
    /\ [][\A k \in Keys :
            /\ objects[k] # None => objects'[k] # None
            /\ objects'[k] # objects[k] =>
                 \E f \in futures :
                    /\ f \notin futures'
                    /\ f.blob.path = k
                    /\ hist'[f.id][Len(hist'[f.id])].res = "ok"
                    /\ objects'[k] = ObjectOf(f.blob)]_vars

\* an object written by one call survives the panic of a later call that
\* also overwrote another blob's object
C3_Witness ==
    /\ pc = "panicked"
    /\ result = "Panic"
    /\ calls = 2
    /\ Cardinality(stored[DirFoo]) = 2
    /\ objects[DirFoo] # None

\* C4: the k-th put request of a blob is issued in round k, every put request
\* of a blob but its last has failed, and a blob has at most one successful
\* put request per call.
C4_OnlyFailuresRetried ==
    \A i \in Ids :
        /\ \A k \in 1..Len(hist[i]) :
            /\ hist[i][k].round = k
            /\ k < Len(hist[i]) => hist[i][k].res = "err"
        /\ Successes(i) <= 1
        /\ (\E f \in futures : f.id = i) => Successes(i) = 0

\* one blob succeeded in round 1 while the other is sent again in round 2
C4_Witness ==
    /\ pc = "await"
    /\ round = 2
    /\ \E i, j \in Ids :
        /\ Outcomes(i) = <<"ok">>
        /\ Outcomes(j) = <<"err", "inflight">>

\* C5: every request in flight belongs to the current round, requests are in
\* flight only while the call awaits the wave, and so none is in flight when
\* the call decides to retry, returns or panics.
C5_WavesSequential ==
    /\ \A f \in futures :
        /\ f.id \in Ids
        /\ hist[f.id][Len(hist[f.id])] = [round |-> round, res |-> "inflight"]
    /\ \A i \in Ids : \A k \in 1..Len(hist[i]) :
        hist[i][k].res = "inflight" =>
            /\ hist[i][k].round = round
            /\ \E f \in futures : f.id = i
    /\ pc # "await" => futures = {}

\* a later round is under way with one request completed and one in flight
C5_Witness ==
    /\ pc = "await"
    /\ round = 2
    /\ Cardinality(futures) = 1
    /\ Len(batch) = 1

\* C6: a call runs at most 3 rounds, a blob gets at most 3 put requests and
\* the call issues at most 3 * |batch| put requests.
C6_RetryBound ==
    /\ round <= 3
    /\ \A i \in Ids : Len(hist[i]) <= 3
    /\ TotalPuts <= 3 * Len(submitted)

C6_Witness ==
    /\ round = 3
    /\ Len(submitted) = 2
    /\ TotalPuts = 3 * Len(submitted)
(* ---------------------------------------------------------------------- *)
(* Properties of get                                                       *)
(* ---------------------------------------------------------------------- *)
\* a get call has ended, by returning or by panicking
GetDone == pc \in {"returned", "panicked"} /\ gresult.kind # "None"

\* get_object answered with a body
Fetched == res.body # None

Body == Unwrap(res.body)

\* the response carries a last-modified value that parses and a content type
WellFormedMetadata ==
    /\ res.last_modified # None
    /\ parse_timespec(Unwrap(res.last_modified)) # None
    /\ res.content_type # None

\* C7: the buffer never holds more than max_size bytes, and a get of an object
\* whose body is longer than max_size never returns a Blob, whatever the
\* chunks: it fails with SizeLimitExceeded (a transport failure of the fetch
\* or of the stream is the only other way it ends).
C7_SizeBoundNeverPartial ==
    /\ Len(content.inner) <= gmax
    /\ (GetDone /\ Fetched /\ Len(Body) > gmax) =>
        /\ gresult.blob = None
        /\ gresult.kind \in {"SizeLimitExceeded", "TransportError"}
        /\ pc = "returned"

\* the limit is hit on a later chunk, with earlier chunks already buffered
C7_Witness ==
    /\ GetDone
    /\ Fetched
    /\ Len(Body) > gmax
    /\ gresult.kind = "SizeLimitExceeded"
    /\ Len(content.inner) > 0
    /\ gpos = Len(Body)

\* C8: with well-formed metadata and a delivered body, a body of exactly
\* max_size bytes is returned complete, for every chunking, and a body of
\* max_size + 1 bytes fails with SizeLimitExceeded.
C8_ExactFit ==
    (GetDone /\ Fetched /\ WellFormedMetadata /\ gresult.kind # "TransportError") =>
        /\ Len(Body) = gmax =>
            /\ gresult.kind = "Blob"
            /\ Unwrap(gresult.blob).content = Body
        /\ Len(Body) = gmax + 1 =>
            /\ gresult.kind = "SizeLimitExceeded"
            /\ gresult.blob = None

C8_Witness ==
    /\ GetDone
    /\ Fetched
    /\ WellFormedMetadata
    /\ gmax = 2
    /\ Len(Body) = gmax
    /\ gresult.kind = "Blob"
    /\ Unwrap(gresult.blob).content = Body

\* the body was streamed to its end within max_size
StreamedWithinLimit ==
    /\ Fetched
    /\ gpos = Len(Body)
    /\ content.inner = Body

\* C9 (as stated): when the body streams within max_size but the response
\* lacks the last-modified value or the content type, get returns a
\* TransportError value to the caller.
C9_MissingMetadataIsReturnedError ==
    (GetDone /\ StreamedWithinLimit
        /\ (res.last_modified = None \/ res.content_type = None)) =>
        /\ gresult.kind = "TransportError"
        /\ pc = "returned"

\* the instant the remote store stamps on what it writes
ServerInstant == Unwrap(parse_timespec(ServerLastModified))

\* C10: a get of a path to which exactly one blob was written, with
\* max_size >= the length of its content, returns (unless the transport
\* fails) a Blob with that blob's path, content, mime and compression; its
\* date_updated is the store's timestamp.
C10_RoundTrip ==
    \A b \in BlobUniverse :
        (/\ GetDone
         /\ gresult.kind # "TransportError"
         /\ stored[gpath] = {b}
         /\ gmax >= Len(b.content)) =>
            /\ gresult.kind = "Blob"
            /\ Unwrap(gresult.blob).path = b.path
            /\ Unwrap(gresult.blob).content = b.content
            /\ Unwrap(gresult.blob).mime = b.mime
            /\ Unwrap(gresult.blob).compression = b.compression
            /\ Unwrap(gresult.blob).date_updated = ServerInstant

\* a compressed blob read back after two calls, with the store's timestamp
C10_Witness ==
    /\ GetDone
    /\ calls = 2
    /\ gresult.kind = "Blob"
    /\ \E b \in BlobUniverse :
        /\ stored[gpath] = {b}
        /\ b.compression # None
        /\ Unwrap(gresult.blob).compression = b.compression
        /\ Unwrap(gresult.blob).content = b.content
        /\ Unwrap(gresult.blob).date_updated # b.date_updated
\* no put request for a blob with path p has succeeded
NeverPut(p) == \A k \in Keys : \A b \in stored[k] : b.path # p

\* key k holds an object that was in the bucket before this client wrote
HeldAtStart(k) == stored[k] = {} /\ objects[k] # None

\* s is a proper suffix, or a proper prefix, of t
IsSuffix(s, t) == Len(s) < Len(t) /\ SubSeq(t, Len(t) - Len(s) + 1, Len(t)) = s
IsPrefix(s, t) == Len(s) < Len(t) /\ SubSeq(t, 1, Len(s)) = s

\* C11: a get of a path that no successful put request was for (and that held
\* no object before) fails with NotFound and returns no Blob, also when the
\* path is a prefix or a suffix of a stored path (a transport failure of the
\* fetch is the only other way it ends).
C11_UnknownPathNotFound ==
    (GetDone /\ gresult.kind # "TransportError"
        /\ NeverPut(gpath) /\ ~HeldAtStart(gpath)) =>
        /\ gresult.kind = "NotFound"
        /\ gresult.blob = None
        /\ pc = "returned"

\* "foo.txt" is not found while "dir/foo.txt" is stored
C11_Witness ==
    /\ GetDone
    /\ gresult.kind = "NotFound"
    /\ \E k \in Keys :
        /\ stored[k] # {}
        /\ objects[k] # None
        /\ IsSuffix(gpath, k)
\* the key a request in flight writes
KeyOf(f) == PutObjectRequest(f.blob).key

\* no two requests in flight write the same key
KeysDisjoint == \A f, g \in futures : f # g => KeyOf(f) # KeyOf(g)

\* the blobs of the submitted batch have pairwise distinct paths
DistinctPaths ==
    \A i, j \in 1..Len(submitted) : i # j => submitted[i].path # submitted[j].path

\* C12 (as stated): in every round, for every batch the call accepts, the put
\* requests in flight write pairwise distinct keys.
C12_KeysDisjointForEveryBatch == KeysDisjoint

\* C12 (amended): for a batch whose blobs have pairwise distinct paths, the
\* requests in flight write pairwise distinct keys, and whatever the order of
\* completion the key of a blob whose put succeeded holds that blob's object.
C12_KeysDisjointForDistinctPaths ==
    DistinctPaths =>
        /\ KeysDisjoint
        /\ \A i \in Ids :
            Successes(i) = 1 => objects[submitted[i].path] = ObjectOf(submitted[i])

\* two requests of one wave in flight, one wave after a failure of both
C12_Witness ==
    /\ DistinctPaths
    /\ pc = "await"
    /\ round = 2
    /\ Cardinality(futures) = 2
RECURSIVE SumSuccesses(_)
SumSuccesses(n) == IF n = 0 THEN 0 ELSE Successes(n) + SumSuccesses(n - 1)

\* put requests of the current call that have succeeded
TotalSuccesses == SumSuccesses(Len(hist))

\* the last put request of blob i in h has the outcome r
LastIs(h, i, r) == Len(h[i]) > 0 /\ h[i][Len(h[i])].res = r

\* C13: in every interleaving of the completions the upload counter has grown,
\* since the call began, by exactly the number of put requests of the call
\* that succeeded: a completion with Ok adds 1, a completion with Err adds 0,
\* and no other step changes the counter.
C13_CounterCountsSuccesses ==
    /\ [](uploaded - uploaded0 = TotalSuccesses)
    /\ [][\/ /\ uploaded' = uploaded + 1
             /\ \E f \in futures : f \notin futures' /\ LastIs(hist', f.id, "ok")
          \/ /\ uploaded' = uploaded
             /\ \A f \in futures : f \notin futures' => LastIs(hist', f.id, "err")]_vars

\* a second call has panicked after one success and three failures of the
\* other blob, the first call having counted its own uploads
C13_Witness ==
    /\ pc = "panicked"
    /\ result = "Panic"
    /\ calls = 2
    /\ TotalSuccesses = 1
    /\ TotalPuts = 4
    /\ uploaded = uploaded0 + 1
    /\ uploaded0 > 0
\* the content-encoding labels of the compression algorithms
KnownEncodings == {to_string(alg) : alg \in CompressionAlgorithms}

\* the response carries a content-encoding value that is no known label
UnknownEncoding ==
    /\ IsSome(res.content_encoding)
    /\ Unwrap(res.content_encoding) \notin KnownEncodings

\* C14: when the response has well-formed metadata, a body within max_size and
\* a content-encoding value that is no known label, get returns (unless the
\* transport fails) the Blob it returns for a response without content
\* encoding: compression absent, the whole body, the response's content type.
C14_UnknownEncodingDegrades ==
    (GetDone /\ Fetched /\ WellFormedMetadata /\ Len(Body) <= gmax
        /\ gresult.kind # "TransportError" /\ UnknownEncoding) =>
        /\ gresult.kind = "Blob"
        /\ pc = "returned"
        /\ Unwrap(gresult.blob).compression = None
        /\ Unwrap(gresult.blob).content = Body
        /\ Unwrap(gresult.blob).mime = Unwrap(res.content_type)
        /\ Unwrap(gresult.blob).path = gpath

C14_Witness ==
    /\ GetDone
    /\ UnknownEncoding
    /\ gresult.kind = "Blob"
    /\ Unwrap(gresult.blob).compression = None
    /\ Unwrap(gresult.blob).content = <<8>>
\* C15: a step that completes an Open transaction is taken with no call
\* running, returns Ok, leaves the bucket, the upload counter and the requests
\* (none in flight, no get under way) as they were, and makes the transaction
\* Complete; a Complete transaction stays Complete and no store_batch call is
\* started on it.
C15_CompleteHasNoEffect ==
    /\ [][(txn = "Open" /\ txn' = "Complete") =>
            /\ pc = "idle" /\ pc' = "returned"
            /\ result' = "Ok"
            /\ objects' = objects
            /\ uploaded' = uploaded
            /\ stored' = stored
            /\ futures = {} /\ futures' = {}
            /\ batch' = <<>>
            /\ GetIdle /\ gvars' = gvars]_vars
    /\ [][txn = "Complete" =>
            /\ txn' = "Complete"
            /\ calls' = calls
            /\ pc' \notin {"loop", "await"}
            /\ result' # "Panic"
            /\ uploaded' = uploaded
            /\ objects' = objects]_vars

\* complete() has returned Ok after two store_batch calls that uploaded
C15_Witness ==
    /\ txn = "Complete"
    /\ pc = "returned"
    /\ result = "Ok"
    /\ calls = 2
    /\ uploaded = 3
\* what get makes of a delivered body, of max_size and of the metadata, with
\* no regard to the declared content length
OutcomeByBody ==
    IF Len(Body) > gmax THEN Failure("SizeLimitExceeded")
    ELSE IF res.last_modified = None THEN Failure("Panic")
    ELSE IF parse_timespec(Unwrap(res.last_modified)) = None
    THEN Failure("MalformedTimestamp")
    ELSE IF res.content_type = None THEN Failure("Panic")
    ELSE OkBlob(Blob(gpath,
                     Unwrap(res.content_type),
                     Unwrap(parse_timespec(Unwrap(res.last_modified))),
                     Body,
                     IF IsSome(res.content_encoding)
                     THEN parse_compression(Unwrap(res.content_encoding))
                     ELSE None))

\* C16: whatever content length the response declares (none, negative, below,
\* equal to or above the true length or max_size), the outcome of get is the
\* one fixed by the body, max_size and the metadata (unless the transport
\* fails), the ceiling of the buffer is max_size and the reservation never
\* exceeds it.
C16_DeclaredSizeIsOnlyAHint ==
    /\ (GetDone /\ Fetched /\ gresult.kind # "TransportError") => gresult = OutcomeByBody
    /\ pc = "stream" => content.limit = gmax
    /\ content.reserved <= content.limit

\* a response that declares more than max_size is read whole
C16_Witness ==
    /\ GetDone
    /\ Fetched
    /\ IsSome(res.content_length)
    /\ Unwrap(res.content_length) > gmax
    /\ Unwrap(res.content_length) > Len(Body)
    /\ Len(Body) = 2
    /\ gresult.kind = "Blob"
    /\ Unwrap(gresult.blob).content = Body
(* ---------------------------------------------------------------------- *)
(* Properties of parse_timespec                                            *)
(* ---------------------------------------------------------------------- *)
\* the date-times of the layout "<weekday>, <day> <month> <year> <HH>:<MM>:<SS>"
\* among the pieces, with the instants they denote
LayoutInstant(piece) ==
    CASE piece = "Thu, 1 Jan 1970 00:00:00" -> Some(0)
      [] piece = "Mon, 16 Apr 2018 04:33:50" -> Some(1523853230)
      [] OTHER -> None

\* the text is a date-time of the layout with at most one trailing " GMT"
MatchesLayout(text) ==
    /\ Len(text) \in {1, 2}
    /\ LayoutInstant(text[1]) # None
    /\ Len(text) = 2 => text[2] = " GMT"

\* C17 (as stated): parse_timespec returns the instant of a text of the layout
\* with an optional single trailing " GMT", and MalformedTimestamp for every
\* other text.
C17_ParserAcceptsExactlyTheLayout ==
    parsed # NotParsed =>
        IF MatchesLayout(raw)
        THEN parsed = OkInstant(Unwrap(LayoutInstant(raw[1])))
        ELSE parsed = MalformedTimestamp
(* ---------------------------------------------------------------------- *)
(* Further properties of store_batch                                       *)
(* ---------------------------------------------------------------------- *)
\* how often submitted blob i is in the retained batch, and in flight
Retained(i) == Cardinality({k \in 1..Len(batch) : batch[k].id = i})
InFlight(i) == Cardinality({f \in futures : f.id = i})

\* no request is in flight: before the first round, or at the end of a round
RoundOver == futures = {}

\* C18: every submitted blob is, at any time, exactly one of succeeded,
\* retained or in flight, so at the end of every round the succeeded and the
\* retained blobs partition the submitted batch; a retained blob (and one sent
\* again) is the blob as submitted, so its request is the same as the first.
C18_BatchConservation ==
    /\ \A i \in Ids : Successes(i) + Retained(i) + InFlight(i) = 1
    /\ RoundOver =>
        /\ \A i \in Ids : (Successes(i) = 1) # (Retained(i) = 1)
        /\ TotalSuccesses + Len(batch) = Len(submitted)
    /\ \A k \in 1..Len(batch) :
        /\ batch[k].id \in 1..Len(submitted)
        /\ batch[k].blob = submitted[batch[k].id]
        /\ PutObjectRequest(batch[k].blob) = PutObjectRequest(submitted[batch[k].id])
    /\ \A f \in futures :
        /\ f.id \in 1..Len(submitted)
        /\ f.blob = submitted[f.id]

\* round 2 is over with one blob succeeded and the other retained again
C18_Witness ==
    /\ pc = "loop"
    /\ round = 2
    /\ Len(submitted) = 2
    /\ Len(batch) = 1
    /\ TotalSuccesses = 1
    /\ Len(hist[batch[1].id]) = 2
\* a store_batch call is running
InStoreBatch == pc \in {"loop", "await"}

\* a store_batch call has ended, by returning Ok or by the panic
StoreBatchEnded ==
    \/ pc = "returned" /\ result = "Ok" /\ round >= 1
    \/ pc = "panicked" /\ result = "Panic"

\* C19: when every put request that was issued completes, every store_batch
\* call ends, by returning Ok or by the panic; it never starts a fourth round;
\* and for the empty batch it issues no request and returns Ok in round 1.
C19_Termination ==
    /\ InStoreBatch ~> StoreBatchEnded
    /\ [](round <= 3)
    /\ []((round >= 1 /\ submitted = <<>>) =>
            /\ round = 1
            /\ futures = {}
            /\ uploaded = uploaded0
            /\ pc \in {"await", "returned"}
            /\ pc = "returned" => result = "Ok")

\* store_batch of the empty batch has returned Ok after one round
C19_Witness ==
    /\ pc = "returned"
    /\ result = "Ok"
    /\ submitted = <<>>
    /\ round = 1
    /\ calls = 2

\* the batch as the current call was given it
SubmittedEntries == {Entry(i, submitted[i]) : i \in 1..Len(submitted)}

\* a store_batch call: running, returned Ok, or ended in the panic
OfStoreBatch ==
    \/ InStoreBatch
    \/ pc = "returned" /\ result = "Ok" /\ round >= 1
    \/ pc = "panicked" /\ result = "Panic"

\* C20: the transaction keeps nothing between store_batch calls. Whatever the
\* calls before it did, a store_batch call on an Open transaction starts in
\* round 0 with no request in flight and with a batch that holds exactly the
\* blobs it was given. All through the call, what is retained or in flight is a
\* blob of this call, no blob has had more requests than this call has had
\* rounds, and the counter has grown by the successes of this call alone. So
\* the panic comes only after 3 rounds of this call that one of its blobs
\* failed, and Ok comes with one upload counted for each of its blobs.
C20_BudgetPerCall ==
    /\ [][(pc = "idle" /\ pc' = "loop") =>
            /\ txn = "Open"
            /\ round' = 0
            /\ futures' = {}
            /\ batch' = [i \in 1..Len(submitted') |-> Entry(i, submitted'[i])]
            /\ \A i \in DOMAIN hist' : hist'[i] = <<>>
            /\ uploaded0' = uploaded]_vars
    /\ [](OfStoreBatch =>
            /\ \A k \in 1..Len(batch) : batch[k] \in SubmittedEntries
            /\ futures \subseteq SubmittedEntries
            /\ \A i \in Ids : Len(hist[i]) <= round
            /\ uploaded - uploaded0 = TotalSuccesses
            /\ TotalSuccesses <= Len(submitted))
    /\ []((pc = "panicked" /\ result = "Panic") => round = 3 /\ ExhaustedBlob)
    /\ []((pc = "returned" /\ result = "Ok" /\ round >= 1) =>
            uploaded - uploaded0 = Len(submitted))

\* the second call has used all its 3 rounds and returned Ok, after an earlier
\* call that returned Ok with uploads of its own
C20_Witness ==
    /\ calls = 2
    /\ uploaded0 > 0
    /\ pc = "returned"
    /\ result = "Ok"
    /\ round = 3
    /\ submitted # <<>>
    /\ \E i \in Ids : Outcomes(i) = <<"err", "err", "ok">>
====
